---- MODULE Spec2Model ----
(***************************************************************************)
(* A model of the B+ tree of pkg/datastructures/bplus_tree.go.             *)
(*                                                                         *)
(* The heap of *TreeNode values is a sequence of node records; a pointer   *)
(* is an index into it and NIL (0) is Go's nil.  Every public operation is *)
(* one action (the tree-wide mutex makes it atomic); the private methods   *)
(* are operators that take and return the pair [heap, root, panic].        *)
(***************************************************************************)
EXTENDS Integers, Sequences, FiniteSets

\* ------------------------------------------------------------------ bounds
MaxKey == 7
NumValues == 2
MinOrder == 3
MaxOrder == 4
MaxCount == 9
MaxDeletes == 9
MaxMultiKey == 2
NumCallers == 2
MaxCalls == 3
MaxFairKey == 4
MaxGrowKey == 10

NIL == 0
Keys == 1..MaxKey
GrowKeys == 1..MaxGrowKey
Values == 1..NumValues
Orders == MinOrder..MaxOrder
\* the values Insert is called with for a key: every value for the keys up to
\* MaxMultiKey, the first value alone for the others.
ValuesOf(key) == IF key <= MaxMultiKey THEN Values ELSE {1}

\* heap, root, order, count: the tree.  panicked: the message of a panic, "" if
\* none.  latest: per key, the value of its last Insert, NoValue when it was
\* never inserted or deleted since.  removed: the number of entries deleted.
\* arg: the arguments NewBPlusTree was called with.  mu: the tree's RWMutex.
\* call: per caller, where it stands in its current call.  calls: per caller,
\* the number of calls it has made.
VARIABLES heap, root, order, count, panicked, latest, removed, arg, mu, call, calls

vars == <<heap, root, order, count, panicked, latest, removed, arg, mu, call, calls>>

\* ------------------------------------------------------------- data model
\* TreeNode: a leaf keeps keys/values, an internal node keys/children.
TreeNode(isLeaf, keys, values, children, next, parent) ==
    [isLeaf |-> isLeaf, keys |-> keys, values |-> values,
     children |-> children, next |-> next, parent |-> parent]

KeyValue(k, v) == [Key |-> k, Value |-> v]

\* comparator: the integer comparator of the tests and examples.
comparator(a, b) == IF a < b THEN -1 ELSE IF a > b THEN 1 ELSE 0

minKeys == order \div 2 - 1
minChildren == order \div 2

\* The tree as the private methods see it.
Tree(h, r, p) == [heap |-> h, root |-> r, panic |-> p]

\* ------------------------------------------------------- sequence helpers
\* s[from:] and s[:to] of Go, with 0-based bounds.
From(s, from) == SubSeq(s, from + 1, Len(s))
Upto(s, to) == SubSeq(s, 1, to)
\* insert x so that it lands at 0-based position pos.
InsertAt(s, pos, x) == Upto(s, pos) \o <<x>> \o From(s, pos)
\* remove the element at 0-based position pos.
RemoveAt(s, pos) == Upto(s, pos) \o From(s, pos + 1)
\* index (0-based) of the first element equal to x, or -1.
IndexOf(s, x) ==
    IF \E i \in 1..Len(s) : s[i] = x
    THEN (CHOOSE i \in 1..Len(s) : s[i] = x /\ \A j \in 1..(i - 1) : s[j] # x) - 1
    ELSE -1

\* ---------------------------------------------------------------- descent
\* childIndex with a key equal to a separator sent to the left of it.
childIndex_equalGoesLeft(node, key) ==
    CHOOSE i \in 0..Len(node.keys) :
        /\ \A j \in 1..i : comparator(key, node.keys[j]) > 0
        /\ (i = Len(node.keys) \/ comparator(key, node.keys[i + 1]) <= 0)

\* the inner loop of findLeafNode: the number of leading separators <= key,
\* clamped to the last child.
childIndex(node, key) ==
    LET n == Len(node.keys)
        idx == CHOOSE i \in 0..n :
                  /\ \A j \in 1..i : comparator(key, node.keys[j]) >= 0
                  /\ (i = n \/ comparator(key, node.keys[i + 1]) < 0)
    IN  IF idx >= Len(node.children) THEN Len(node.children) - 1 ELSE idx

RECURSIVE descend(_, _, _)
descend(h, n, key) ==
    IF h[n].isLeaf THEN n
    ELSE descend(h, h[n].children[childIndex(h[n], key) + 1], key)

findLeafNode(h, r, key) == descend(h, r, key)

\* index (0-based) of the first key of the leaf equal to key, or -1.
keyIndex(leaf, key) ==
    IF \E i \in 1..Len(leaf.keys) : comparator(leaf.keys[i], key) = 0
    THEN (CHOOSE i \in 1..Len(leaf.keys) :
             /\ comparator(leaf.keys[i], key) = 0
             /\ \A j \in 1..(i - 1) : comparator(leaf.keys[j], key) # 0) - 1
    ELSE -1

\* ------------------------------------------------------------ heap edits
\* a new root (appended to the heap) over the two halves of a split root.
newRootOver(h, left, right, key) ==
    [i \in 1..(Len(h) + 1) |->
        IF i = Len(h) + 1 THEN TreeNode(FALSE, <<key>>, <<>>, <<left, right>>, NIL, NIL)
        ELSE IF i \in {left, right} THEN [h[i] EXCEPT !.parent = Len(h) + 1]
        ELSE h[i]]

\* key goes in at position pos of the parent's keys, child at pos+1 of its
\* children, and child's parent reference is set.
insertChild(h, parent, pos, key, child) ==
    [h EXCEPT ![parent].keys = InsertAt(@, pos, key),
              ![parent].children = InsertAt(@, pos + 1, child),
              ![child].parent = parent]

\* ----------------------------------------------------------------- insert
RECURSIVE splitInternalNode(_, _)

\* the Internal split that leaves the moved children with their old parent.
splitInternalHalves_keepsParents(h, node, splitPos) ==
    [i \in 1..(Len(h) + 1) |->
        IF i = Len(h) + 1
        THEN TreeNode(FALSE, From(h[node].keys, splitPos + 1), <<>>,
                      From(h[node].children, splitPos + 1), NIL, h[node].parent)
        ELSE IF i = node
        THEN [h[i] EXCEPT !.keys = Upto(@, splitPos), !.children = Upto(@, splitPos + 1)]
        ELSE h[i]]

\* the Internal split that leaves the middle key in the old node as well.
splitInternalHalves_keepsMiddle(h, node, splitPos) ==
    [i \in 1..(Len(h) + 1) |->
        IF i = Len(h) + 1
        THEN TreeNode(FALSE, From(h[node].keys, splitPos + 1), <<>>,
                      From(h[node].children, splitPos + 1), NIL, h[node].parent)
        ELSE IF i = node
        THEN [h[i] EXCEPT !.keys = Upto(@, splitPos + 1), !.children = Upto(@, splitPos + 1)]
        ELSE IF \E j \in (splitPos + 2)..Len(h[node].children) : h[node].children[j] = i
        THEN [h[i] EXCEPT !.parent = Len(h) + 1]
        ELSE h[i]]

\* the first half of splitInternalNode: the new node takes keys[splitPos+1:]
\* and children[splitPos+1:], which are re-parented; the node keeps the rest.
splitInternalHalves(h, node, splitPos) ==
    [i \in 1..(Len(h) + 1) |->
        IF i = Len(h) + 1
        THEN TreeNode(FALSE, From(h[node].keys, splitPos + 1), <<>>,
                      From(h[node].children, splitPos + 1), NIL, h[node].parent)
        ELSE IF i = node
        THEN [h[i] EXCEPT !.keys = Upto(@, splitPos), !.children = Upto(@, splitPos + 1)]
        ELSE IF \E j \in (splitPos + 2)..Len(h[node].children) : h[node].children[j] = i
        THEN [h[i] EXCEPT !.parent = Len(h) + 1]
        ELSE h[i]]

\* the overflow check with the limit one key too high.
parentOverflow_oneTooMany(T, parent) ==
    IF Len(T.heap[parent].keys) > order THEN splitInternalNode(T, parent) ELSE T

parentOverflow(T, parent) ==
    IF Len(T.heap[parent].keys) > order - 1 THEN splitInternalNode(T, parent) ELSE T

\* the second half of splitInternalNode: h1 is the heap with the new node
\* newId; midKey moves up into a new root or into the parent.
linkInternalNode(T, h1, node, newId, midKey) ==
    IF h1[node].parent = NIL
    THEN Tree(newRootOver(h1, node, newId, midKey), Len(h1) + 1, T.panic)
    ELSE IF IndexOf(h1[h1[node].parent].children, node) = -1
    THEN Tree(h1, T.root, "node not found in parent")
    ELSE parentOverflow(
             Tree(insertChild(h1, h1[node].parent,
                              IndexOf(h1[h1[node].parent].children, node), midKey, newId),
                  T.root, T.panic),
             h1[node].parent)

splitInternalAt(T, node, splitPos) ==
    linkInternalNode(T, splitInternalHalves(T.heap, node, splitPos), node,
                     Len(T.heap) + 1, T.heap[node].keys[splitPos + 1])

splitInternalNode(T, node) == splitInternalAt(T, node, Len(T.heap[node].keys) \div 2)

\* the leaf split with a new leaf that does not take over the old next.
splitLeafHalves_forgetsNext(h, leaf, splitPos) ==
    [i \in 1..(Len(h) + 1) |->
        IF i = Len(h) + 1
        THEN TreeNode(TRUE, From(h[leaf].keys, splitPos), From(h[leaf].values, splitPos),
                      <<>>, NIL, h[leaf].parent)
        ELSE IF i = leaf
        THEN [h[i] EXCEPT !.keys = Upto(@, splitPos), !.values = Upto(@, splitPos),
                          !.next = Len(h) + 1]
        ELSE h[i]]

\* the first half of splitLeafNode: the new leaf takes the entries
\* [splitPos:] and the old next; the leaf keeps the rest and points to it.
splitLeafHalves(h, leaf, splitPos) ==
    [i \in 1..(Len(h) + 1) |->
        IF i = Len(h) + 1
        THEN TreeNode(TRUE, From(h[leaf].keys, splitPos), From(h[leaf].values, splitPos),
                      <<>>, h[leaf].next, h[leaf].parent)
        ELSE IF i = leaf
        THEN [h[i] EXCEPT !.keys = Upto(@, splitPos), !.values = Upto(@, splitPos),
                          !.next = Len(h) + 1]
        ELSE h[i]]

\* the second half of splitLeafNode: the first key of the new leaf becomes
\* the separator, in a new root or in the parent.
linkLeafNode(T, h1, leaf, newId) ==
    IF h1[leaf].parent = NIL
    THEN Tree(newRootOver(h1, leaf, newId, h1[newId].keys[1]), Len(h1) + 1, T.panic)
    ELSE IF IndexOf(h1[h1[leaf].parent].children, leaf) = -1
    THEN Tree(h1, T.root, "leaf node not found in parent")
    ELSE parentOverflow(
             Tree(insertChild(h1, h1[leaf].parent,
                              IndexOf(h1[h1[leaf].parent].children, leaf),
                              h1[newId].keys[1], newId),
                  T.root, T.panic),
             h1[leaf].parent)

splitLeafNode(T, leaf) ==
    linkLeafNode(T, splitLeafHalves(T.heap, leaf, Len(T.heap[leaf].keys) \div 2),
                 leaf, Len(T.heap) + 1)

\* insertPos that appends instead of searching the sorted position.
insertPos_atEnd(keys, key) == Len(keys)

\* the position insertIntoLeaf inserts at: the number of leading keys < key.
insertPos(keys, key) ==
    CHOOSE i \in 0..Len(keys) :
        /\ \A j \in 1..i : comparator(keys[j], key) < 0
        /\ (i = Len(keys) \/ comparator(keys[i + 1], key) >= 0)

leafOverflow(T, leaf) ==
    IF Len(T.heap[leaf].keys) > order - 1 THEN splitLeafNode(T, leaf) ELSE T

\* insertIntoLeaf that appends the entry to values instead of inserting it
\* at the position of its key.
putInLeaf_valueAtEnd(h, leaf, key, value) ==
    [h EXCEPT ![leaf].values = @ \o <<KeyValue(key, value)>>,
              ![leaf].keys = InsertAt(@, insertPos(@, key), key)]

\* the entry put at its sorted position in the leaf, before any split.
putInLeaf(h, leaf, key, value) ==
    [h EXCEPT ![leaf].values = InsertAt(@, insertPos(h[leaf].keys, key),
                                        KeyValue(key, value)),
              ![leaf].keys = InsertAt(@, insertPos(@, key), key)]

insertIntoLeaf(T, leaf, key, value) ==
    leafOverflow(Tree(putInLeaf(T.heap, leaf, key, value), T.root, T.panic), leaf)

\* ----------------------------------------------------------------- delete
OutOfRange == "index out of range"

\* position of a node among its parent's children as the rebalance loops
\* compute it: len(children) when the node is not there.
childPos(p, node) ==
    IF IndexOf(p.children, node) = -1 THEN Len(p.children) ELSE IndexOf(p.children, node)

Last(s) == s[Len(s)]

RECURSIVE deleteFromInternalNode(_, _, _, _)
RECURSIVE rebalanceInternalNode(_, _)

\* rebalanceInternalNode, borrow from the left sibling: the parent separator
\* comes down in front of the node's keys, the sibling's last child moves
\* over, the sibling drops its last key, and the parent separator becomes
\* the sibling's last remaining key.
borrowInternalLeft(h, node, parent, pos, left) ==
    IF pos > Len(h[parent].keys) \/ h[left].children = <<>> \/ Len(h[left].keys) < 2
    THEN h
    ELSE [h EXCEPT
            ![node].keys = <<h[parent].keys[pos]>> \o @,
            ![node].children = <<Last(h[left].children)>> \o @,
            ![Last(h[left].children)].parent = node,
            ![left].keys = Upto(@, Len(@) - 1),
            ![left].children = Upto(@, Len(@) - 1),
            ![parent].keys[pos] = h[left].keys[Len(h[left].keys) - 1]]

\* rebalanceInternalNode, borrow from the right sibling: the parent
\* separator comes down behind the node's keys, the sibling's first child
\* moves over, the sibling drops its first key, and the parent separator
\* becomes the sibling's first remaining key.
borrowInternalRight(h, node, parent, pos, right) ==
    IF pos + 1 > Len(h[parent].keys) \/ h[right].children = <<>> \/ Len(h[right].keys) < 2
    THEN h
    ELSE [h EXCEPT
            ![node].keys = @ \o <<h[parent].keys[pos + 1]>>,
            ![node].children = @ \o <<h[right].children[1]>>,
            ![h[right].children[1]].parent = node,
            ![right].keys = From(@, 1),
            ![right].children = From(@, 1),
            ![parent].keys[pos + 1] = h[right].keys[2]]

\* mergeInternal that forgets to bring the parent separator down.
mergeInternal_dropsSeparator(h, into, from, sep) ==
    [i \in 1..Len(h) |->
        IF i = into
        THEN [h[i] EXCEPT !.keys = @ \o h[from].keys,
                          !.children = @ \o h[from].children]
        ELSE IF \E j \in 1..Len(h[from].children) : h[from].children[j] = i
        THEN [h[i] EXCEPT !.parent = into]
        ELSE h[i]]

\* into absorbs from: its keys after the parent separator sep, its children
\* after into's, re-parented.
mergeInternal(h, into, from, sep) ==
    [i \in 1..Len(h) |->
        IF i = into
        THEN [h[i] EXCEPT !.keys = (@ \o <<sep>>) \o h[from].keys,
                          !.children = @ \o h[from].children]
        ELSE IF \E j \in 1..Len(h[from].children) : h[from].children[j] = i
        THEN [h[i] EXCEPT !.parent = into]
        ELSE h[i]]

borrowed(T, h, h1) == Tree(h1, T.root, IF h1 = h THEN OutOfRange ELSE T.panic)

rebalanceInternalAt(T, h, node, parent, pos) ==
    IF pos > 0 /\ Len(h[h[parent].children[pos]].keys) > minKeys
    THEN borrowed(T, h, borrowInternalLeft(h, node, parent, pos, h[parent].children[pos]))
    ELSE IF pos < Len(h[parent].children) - 1
            /\ Len(h[h[parent].children[pos + 2]].keys) > minKeys
    THEN borrowed(T, h, borrowInternalRight(h, node, parent, pos, h[parent].children[pos + 2]))
    ELSE IF pos > 0
    THEN IF pos > Len(h[parent].keys)
         THEN Tree(h, T.root, OutOfRange)
         ELSE deleteFromInternalNode(
                  Tree(mergeInternal(h, h[parent].children[pos], node, h[parent].keys[pos]),
                       T.root, T.panic),
                  parent, pos - 1, node)
    ELSE IF pos + 2 > Len(h[parent].children) \/ pos + 1 > Len(h[parent].keys)
         THEN Tree(h, T.root, OutOfRange)
         ELSE deleteFromInternalNode(
                  Tree(mergeInternal(h, node, h[parent].children[pos + 2],
                                     h[parent].keys[pos + 1]),
                       T.root, T.panic),
                  parent, pos, h[parent].children[pos + 2])

rebalanceInternalNode(T, node) ==
    rebalanceInternalAt(T, T.heap, node, T.heap[node].parent,
                        childPos(T.heap[T.heap[node].parent], node))

\* deleteFromInternalNode that keeps a root without keys.
collapseRoot_never(T, parent) == T

\* the end of deleteFromInternalNode: a root left without keys gives way to
\* its only child.
collapseRoot(T, parent) ==
    IF T.panic # "" THEN T
    ELSE IF Len(T.heap[parent].keys) = 0 /\ T.heap[parent].parent = NIL
    THEN IF T.heap[parent].children = <<>>
         THEN Tree(T.heap, T.root, OutOfRange)
         ELSE Tree([T.heap EXCEPT ![T.heap[parent].children[1]].parent = NIL],
                   T.heap[parent].children[1], T.panic)
    ELSE T

parentUnderflow(T, parent) ==
    IF Len(T.heap[parent].keys) < minKeys /\ T.heap[parent].parent # NIL
    THEN rebalanceInternalNode(T, parent)
    ELSE T

deleteFromInternalNode(T, parent, pos, child) ==
    IF pos + 1 > Len(T.heap[parent].keys) \/ pos + 2 > Len(T.heap[parent].children)
    THEN Tree(T.heap, T.root, OutOfRange)
    ELSE collapseRoot(
             parentUnderflow(
                 Tree([T.heap EXCEPT
                         ![parent].keys = RemoveAt(@, pos),
                         ![parent].children = Upto(@, pos + 1) \o From(@, pos + 2)],
                      T.root, T.panic),
                 parent),
             parent)

\* rebalanceLeafNode, borrow from the left sibling: its last entry goes in
\* front of the leaf's and becomes the parent separator.
\* the borrow from the left sibling without the update of the parent
\* separator.
borrowLeafLeft_staleSeparator(h, leaf, parent, pos, left) ==
    IF h[left].keys = <<>> \/ h[left].values = <<>> \/ pos > Len(h[parent].keys)
    THEN h
    ELSE [h EXCEPT
            ![leaf].keys = <<Last(h[left].keys)>> \o @,
            ![leaf].values = <<Last(h[left].values)>> \o @,
            ![left].keys = Upto(@, Len(@) - 1),
            ![left].values = Upto(@, Len(@) - 1)]

borrowLeafLeft(h, leaf, parent, pos, left) ==
    IF h[left].keys = <<>> \/ h[left].values = <<>> \/ pos > Len(h[parent].keys)
    THEN h
    ELSE [h EXCEPT
            ![leaf].keys = <<Last(h[left].keys)>> \o @,
            ![leaf].values = <<Last(h[left].values)>> \o @,
            ![left].keys = Upto(@, Len(@) - 1),
            ![left].values = Upto(@, Len(@) - 1),
            ![parent].keys[pos] = Last(h[left].keys)]

\* rebalanceLeafNode, borrow from the right sibling: its first entry goes
\* behind the leaf's; its next key becomes the parent separator.
borrowLeafRight(h, leaf, parent, pos, right) ==
    IF Len(h[right].keys) < 2 \/ h[right].values = <<>> \/ pos + 1 > Len(h[parent].keys)
    THEN h
    ELSE [h EXCEPT
            ![leaf].keys = @ \o <<h[right].keys[1]>>,
            ![leaf].values = @ \o <<h[right].values[1]>>,
            ![right].keys = From(@, 1),
            ![right].values = From(@, 1),
            ![parent].keys[pos + 1] = h[right].keys[2]]

\* the leaf merge that leaves the survivor pointing at the absorbed leaf.
mergeLeaf_keepsNext(h, into, from) ==
    [h EXCEPT ![into].keys = @ \o h[from].keys,
              ![into].values = @ \o h[from].values]

\* into absorbs the entries of from and takes over its next reference.
mergeLeaf(h, into, from) ==
    [h EXCEPT ![into].keys = @ \o h[from].keys,
              ![into].values = @ \o h[from].values,
              ![into].next = h[from].next]

\* rebalanceLeafNode that tries the right sibling before the left one.
rebalanceLeafAt_rightFirst(T, h, leaf, parent, pos) ==
    IF pos < Len(h[parent].children) - 1
       /\ Len(h[h[parent].children[pos + 2]].keys) > minKeys
    THEN borrowed(T, h, borrowLeafRight(h, leaf, parent, pos, h[parent].children[pos + 2]))
    ELSE IF pos > 0 /\ Len(h[h[parent].children[pos]].keys) > minKeys
    THEN borrowed(T, h, borrowLeafLeft(h, leaf, parent, pos, h[parent].children[pos]))
    ELSE IF pos > 0
    THEN deleteFromInternalNode(
             Tree(mergeLeaf(h, h[parent].children[pos], leaf), T.root, T.panic),
             parent, pos - 1, leaf)
    ELSE IF pos + 2 > Len(h[parent].children)
         THEN Tree(h, T.root, OutOfRange)
         ELSE deleteFromInternalNode(
                  Tree(mergeLeaf(h, leaf, h[parent].children[pos + 2]), T.root, T.panic),
                  parent, pos, h[parent].children[pos + 2])

rebalanceLeafAt(T, h, leaf, parent, pos) ==
    IF pos > 0 /\ Len(h[h[parent].children[pos]].keys) > minKeys
    THEN borrowed(T, h, borrowLeafLeft(h, leaf, parent, pos, h[parent].children[pos]))
    ELSE IF pos < Len(h[parent].children) - 1
            /\ Len(h[h[parent].children[pos + 2]].keys) > minKeys
    THEN borrowed(T, h, borrowLeafRight(h, leaf, parent, pos, h[parent].children[pos + 2]))
    ELSE IF pos > 0
    THEN deleteFromInternalNode(
             Tree(mergeLeaf(h, h[parent].children[pos], leaf), T.root, T.panic),
             parent, pos - 1, leaf)
    ELSE IF pos + 2 > Len(h[parent].children)
         THEN Tree(h, T.root, OutOfRange)
         ELSE deleteFromInternalNode(
                  Tree(mergeLeaf(h, leaf, h[parent].children[pos + 2]), T.root, T.panic),
                  parent, pos, h[parent].children[pos + 2])

rebalanceLeafNode(T, leaf) ==
    rebalanceLeafAt(T, T.heap, leaf, T.heap[leaf].parent,
                    childPos(T.heap[T.heap[leaf].parent], leaf))

\* deleteFromLeaf that rebalances a leaf already at the floor.
leafUnderflow_eager(T, leaf) ==
    IF Len(T.heap[leaf].keys) <= minKeys /\ T.heap[leaf].parent # NIL
    THEN rebalanceLeafNode(T, leaf)
    ELSE T

\* deleteFromLeaf that never rebalances.
leafUnderflow_never(T, leaf) == T

leafUnderflow(T, leaf) ==
    IF Len(T.heap[leaf].keys) < minKeys /\ T.heap[leaf].parent # NIL
    THEN rebalanceLeafNode(T, leaf)
    ELSE T

\* the entry at idx cut out of the leaf, before any rebalancing.
cutFromLeaf(h, leaf, idx) ==
    [h EXCEPT ![leaf].keys = RemoveAt(@, idx),
              ![leaf].values = RemoveAt(@, idx)]

deleteFromLeaf(T, leaf, idx) ==
    leafUnderflow(Tree(cutFromLeaf(T.heap, leaf, idx), T.root, T.panic), leaf)

\* ------------------------------------------------------- the Go heap
\* Go pointers have no observable address and unreachable nodes are garbage:
\* after every operation the nodes reachable from the root are kept and
\* renumbered in pre-order (any other reachable node after them, by old index).
Pointers(n) == ({n.children[i] : i \in 1..Len(n.children)} \cup {n.next, n.parent}) \ {NIL}

RECURSIVE Reachable(_, _)
grow(h, S, S1) == IF S1 = S THEN S ELSE Reachable(h, S1)
Reachable(h, S) ==
    CHOOSE R \in {grow(h, V, V \cup UNION {Pointers(h[i]) : i \in V}) : V \in {S}} : TRUE

RECURSIVE Preorder(_, _)
RECURSIVE PreorderAll(_, _)
Preorder(h, n) == <<n>> \o PreorderAll(h, h[n].children)
PreorderAll(h, cs) ==
    IF cs = <<>> THEN <<>> ELSE Preorder(h, Head(cs)) \o PreorderAll(h, Tail(cs))

RECURSIVE Ascending(_)
least(S) == CHOOSE x \in S : \A y \in S : x <= y
Ascending(S) == IF S = {} THEN <<>> ELSE <<least(S)>> \o Ascending(S \ {least(S)})

liveAfter(h, r, pre) ==
    pre \o Ascending(Reachable(h, {r}) \ {pre[i] : i \in 1..Len(pre)})

newIndex(live, p) == IF p = NIL THEN NIL ELSE CHOOSE j \in 1..Len(live) : live[j] = p

moveNode(n, live) ==
    [n EXCEPT !.children = [i \in 1..Len(@) |-> newIndex(live, @[i])],
              !.next = newIndex(live, @),
              !.parent = newIndex(live, @)]

renumber(T, live) ==
    Tree([j \in 1..Len(live) |-> moveNode(T.heap[live[j]], live)],
         newIndex(live, T.root), T.panic)

compacted(V) ==
    CHOOSE R \in {renumber(V, live) :
                    live \in {liveAfter(V.heap, V.root, Preorder(V.heap, V.root))}} : TRUE

Compact(T) == CHOOSE R \in {compacted(V) : V \in {T}} : TRUE

\* ------------------------------------------------------- read operations
\* Search: (value, found); the value is NIL when the key is not found.
searchLeaf(leaf, i) == IF i = -1 THEN <<NIL, FALSE>> ELSE <<leaf.values[i + 1].Value, TRUE>>

Search(h, r, key) ==
    IF key = NIL THEN <<NIL, FALSE>>
    ELSE searchLeaf(h[findLeafNode(h, r, key)], keyIndex(h[findLeafNode(h, r, key)], key))

RECURSIVE leftMost(_, _)
leftMost(h, n) == IF h[n].isLeaf THEN n ELSE leftMost(h, h[n].children[1])

\* the walk along next; fuel bounds it by the number of nodes, so that a
\* cyclic chain shows up as a scan longer than the heap rather than a hang.
RECURSIVE chainFrom(_, _, _)
chainFrom(h, leaf, fuel) ==
    IF leaf = NIL \/ fuel = 0 THEN <<>>
    ELSE <<leaf>> \o chainFrom(h, h[leaf].next, fuel - 1)

RECURSIVE Flatten(_)
Flatten(ss) == IF ss = <<>> THEN <<>> ELSE Head(ss) \o Flatten(Tail(ss))

LeafChain(h, r) == chainFrom(h, leftMost(h, r), Len(h) + 1)

valuesOf(h, chain) == Flatten([i \in 1..Len(chain) |-> h[chain[i]].values])

ScanAll(h, r) == valuesOf(h, LeafChain(h, r))

\* the entries a leaf contributes to RangeQuery(start, end).
RECURSIVE inRange(_, _, _, _)
inRange(leaf, i, start, end) ==
    IF i > Len(leaf.keys) THEN <<>>
    ELSE (IF comparator(leaf.keys[i], start) >= 0 /\ comparator(leaf.keys[i], end) < 0
          THEN <<leaf.values[i]>> ELSE <<>>) \o inRange(leaf, i + 1, start, end)

rangeOf(h, chain, start, end) ==
    Flatten([i \in 1..Len(chain) |-> inRange(h[chain[i]], 1, start, end)])

\* the leaves the loop of RangeQuery visits: from the leaf that would hold
\* start, along next, until next is nil; the loop has no other exit.
walked(h, r, start) == chainFrom(h, findLeafNode(h, r, start), Len(h) + 1)

\* RangeQuery that accepts start = end.
RangeQuery_equalAllowed(h, r, start, end) ==
    IF start = NIL \/ end = NIL
    THEN [result |-> <<>>, err |-> "start and end cannot be nil"]
    ELSE IF comparator(start, end) > 0
    THEN [result |-> <<>>, err |-> "start must be less than end"]
    ELSE [result |-> rangeOf(h, walked(h, r, start), start, end),
          err |-> ""]

\* RangeQuery: [result, err].
RangeQuery(h, r, start, end) ==
    IF start = NIL \/ end = NIL
    THEN [result |-> <<>>, err |-> "start and end cannot be nil"]
    ELSE IF comparator(start, end) >= 0
    THEN [result |-> <<>>, err |-> "start must be less than end"]
    ELSE [result |-> rangeOf(h, walked(h, r, start), start, end),
          err |-> ""]

Size == count

\* Height that counts the edges below the root, not the levels.
RECURSIVE heightFrom_countsEdges(_, _)
heightFrom_countsEdges(h, n) ==
    IF h[n].isLeaf THEN 0 ELSE 1 + heightFrom_countsEdges(h, h[n].children[1])

RECURSIVE heightFrom(_, _)
heightFrom(h, n) == IF h[n].isLeaf THEN 1 ELSE 1 + heightFrom(h, h[n].children[1])

Height(h, r) == heightFrom(h, r)

\* String: the dump, one line per node in pre-order: the indentation (two
\* spaces per level), "Leaf" or "Internal", and the node's keys.
RECURSIVE dump(_, _, _), dumpAll(_, _, _)
dump(h, n, depth) ==
    <<[indent |-> 2 * depth,
       kind |-> IF h[n].isLeaf THEN "Leaf" ELSE "Internal",
       keys |-> h[n].keys]>>
    \o (IF h[n].isLeaf THEN <<>> ELSE dumpAll(h, h[n].children, depth + 1))
dumpAll(h, cs, depth) ==
    IF cs = <<>> THEN <<>> ELSE dump(h, Head(cs), depth) \o dumpAll(h, Tail(cs), depth)

String(h, r) == dump(h, r, 0)

\* ------------------------------------------------------------ operations
\* what a mutation leaves behind and returns:
\* [heap, root, panic, count, ok], ok being "no error" for Insert and
\* "found and removed" for Delete.
Outcome(h, r, p, c, ok) == [heap |-> h, root |-> r, panic |-> p, count |-> c, ok |-> ok]

inserted(C) == Outcome(C.heap, C.root, C.panic, IF C.panic = "" THEN count + 1 ELSE count, TRUE)

insertAt(leaf, i, key, value) ==
    IF i # -1
    THEN Outcome([heap EXCEPT ![leaf].values[i + 1].Value = value], root, "", count, TRUE)
    ELSE inserted(Compact(insertIntoLeaf(Tree(heap, root, ""), leaf, key, value)))

\* Insert without the nil check: a nil key is stored like any other.
InsertOp_nilKeyStored(key, value) ==
    insertAt(findLeafNode(heap, root, key),
             keyIndex(heap[findLeafNode(heap, root, key)], key), key, value)

\* the effect of Insert(key, value) on the current state.
InsertOp(key, value) ==
    IF key = NIL
    THEN Outcome(heap, root, "", count, FALSE)
    ELSE insertAt(findLeafNode(heap, root, key),
                  keyIndex(heap[findLeafNode(heap, root, key)], key), key, value)

\* Delete that forgets count--.
deleted_keepsCount(C) == Outcome(C.heap, C.root, C.panic, count, C.panic = "")

deleted(C) ==
    Outcome(C.heap, C.root, C.panic, IF C.panic = "" THEN count - 1 ELSE count, C.panic = "")

\* Delete that counts a key it did not find as removed.
deleteAt_countsAbsent(leaf, idx) ==
    IF idx = -1
    THEN Outcome(heap, root, "", count - 1, FALSE)
    ELSE deleted(Compact(deleteFromLeaf(Tree(heap, root, ""), leaf, idx)))

deleteAt(leaf, idx) ==
    IF idx = -1
    THEN Outcome(heap, root, "", count, FALSE)
    ELSE deleted(Compact(deleteFromLeaf(Tree(heap, root, ""), leaf, idx)))

\* the effect of Delete(key) on the current state.
DeleteOp(key) ==
    IF key = NIL
    THEN Outcome(heap, root, "", count, FALSE)
    ELSE deleteAt(findLeafNode(heap, root, key),
                  keyIndex(heap[findLeafNode(heap, root, key)], key))

NoValue == NIL

\* NewBPlusTree that lets order 2 through.
NewBPlusTree_orderTwo(o, cmp) ==
    IF o < 2
    THEN [panic |-> "order must be >= 3", heap |-> <<>>, root |-> NIL, order |-> NIL]
    ELSE IF cmp = "nil"
    THEN [panic |-> "comparator is required", heap |-> <<>>, root |-> NIL, order |-> NIL]
    ELSE [panic |-> "", heap |-> <<TreeNode(TRUE, <<>>, <<>>, <<>>, NIL, NIL)>>,
          root |-> 1, order |-> o]

\* NewBPlusTree(order, comparator): a panic and no tree, or a tree of that
\* order with one empty leaf as the root.
NewBPlusTree(o, cmp) ==
    IF o < MinOrder
    THEN [panic |-> "order must be >= 3", heap |-> <<>>, root |-> NIL, order |-> NIL]
    ELSE IF cmp = "nil"
    THEN [panic |-> "comparator is required", heap |-> <<>>, root |-> NIL, order |-> NIL]
    ELSE [panic |-> "", heap |-> <<TreeNode(TRUE, <<>>, <<>>, <<>>, NIL, NIL)>>,
          root |-> 1, order |-> o]

\* the callers of the tree and the state of one that is in no call.
Callers == 1..NumCallers

idle == [pc |-> "idle", op |-> "", leaf |-> NIL, count |-> 0]

\* the state NewBPlusTree(o, cmp) leaves: its outcome N, no call made yet.
Constructed(N, o, cmp) ==
    /\ arg = [order |-> o, comparator |-> cmp]
    /\ heap = N.heap
    /\ root = N.root
    /\ order = N.order
    /\ panicked = N.panic
    /\ count = 0
    /\ latest = [k \in Keys \cup GrowKeys |-> NoValue]
    /\ removed = 0
    /\ mu = [writer |-> NIL, readers |-> {}]
    /\ call = [p \in Callers |-> idle]
    /\ calls = [p \in Callers |-> 0]

\* a tree built with a valid order and the integer comparator.
Init == \E o \in Orders : Constructed(NewBPlusTree(o, "intComparator"), o, "intComparator")

\* any call of NewBPlusTree, the rejected ones included.
InitNew ==
    \E o \in (MinOrder - 1)..MaxOrder : \E cmp \in {"nil", "intComparator"} :
       Constructed(NewBPlusTree(o, cmp), o, cmp)

Insert(key, value) ==
    /\ panicked = ""
    /\ count < MaxCount
    /\ \E R \in {InsertOp(key, value)} :
           /\ heap' = R.heap
           /\ root' = R.root
           /\ count' = R.count
           /\ panicked' = R.panic
    /\ latest' = IF key = NIL THEN latest ELSE [latest EXCEPT ![key] = value]
    /\ UNCHANGED <<order, removed, arg, mu, call, calls>>

Delete(key) ==
    /\ panicked = ""
    /\ removed < MaxDeletes
    /\ \E R \in {DeleteOp(key)} :
           /\ removed' = IF R.ok THEN removed + 1 ELSE removed
           /\ heap' = R.heap
           /\ root' = R.root
           /\ count' = R.count
           /\ panicked' = R.panic
    /\ latest' = IF key = NIL THEN latest ELSE [latest EXCEPT ![key] = NoValue]
    /\ UNCHANGED <<order, arg, mu, call, calls>>

InsertAny == \E key \in Keys \cup {NIL} : \E value \in ValuesOf(key) : Insert(key, value)

DeleteAny == \E key \in Keys \cup {NIL} : Delete(key)

Next == InsertAny \/ DeleteAny

Spec == Init /\ [][Next]_vars

\* a tree that is only ever inserted into.
SpecInsert == Init /\ [][InsertAny]_vars

\* a tree that is filled with distinct keys and then emptied again: keys are
\* inserted once each until the first Delete, then stored keys are deleted.
Fill(key, value) == removed = 0 /\ latest[key] = NoValue /\ Insert(key, value)

Drain(key) == latest[key] # NoValue /\ Delete(key)

FillAny == \E key \in Keys : \E value \in ValuesOf(key) : Fill(key, value)

DrainAny == \E key \in Keys : Drain(key)

SpecFillDrain == Init /\ [][FillAny \/ DrainAny]_vars

\* any call of NewBPlusTree, followed by inserts into the tree it built.
SpecNew == InitNew /\ [][InsertAny]_vars

\* a tree that only grows, over keys enough to overflow an Internal node of
\* every order.
GrowAny == \E key \in GrowKeys : Insert(key, 1)

SpecGrow == Init /\ [][GrowAny]_vars

\* ------------------------------------------------------ concurrent callers
\* Every public method takes the tree's RWMutex first and releases it when
\* it returns (defer).  A call is a sequence of steps of its caller:
\*   Insert, Delete:  Acquire, Edit (find the leaf, change its entries),
\*                    Finish (the split or rebalance cascade, and the load of
\*                    count for count++ / count--), Store (the store of count);
\*   the readers:     Acquire, Read.
\* The step that ends the call releases the mutex.
Mutators == {"Insert", "Delete"}

Readers == {"Search", "RangeQuery", "ScanAll", "Size", "Height", "String"}

\* Insert that takes the read lock.
lockMode_insertShared(op) == IF op = "Delete" THEN "exclusive" ELSE "shared"

\* Delete that takes the read lock.
lockMode_deleteShared(op) == IF op = "Insert" THEN "exclusive" ELSE "shared"

\* Lock for Insert and Delete, RLock for the readers.
lockMode(op) == IF op \in Mutators THEN "exclusive" ELSE "shared"

\* sync.RWMutex: one writer and no reader, or any number of readers.
canAcquire(m, mode) ==
    IF mode = "exclusive" THEN m.writer = NIL /\ m.readers = {} ELSE m.writer = NIL

acquire(m, p, mode) ==
    IF mode = "exclusive" THEN [m EXCEPT !.writer = p] ELSE [m EXCEPT !.readers = @ \cup {p}]

release(m, p, mode) ==
    IF mode = "exclusive" THEN [m EXCEPT !.writer = NIL] ELSE [m EXCEPT !.readers = @ \ {p}]

\* t.mu.Lock() / t.mu.RLock(): caller p enters op.
Acquire(p, op) ==
    /\ panicked = ""
    /\ call[p].pc = "idle"
    /\ canAcquire(mu, lockMode(op))
    /\ mu' = acquire(mu, p, lockMode(op))
    /\ call' = [call EXCEPT ![p] = [pc |-> IF op \in Mutators THEN "edit" ELSE "read",
                                     op |-> op, leaf |-> NIL, count |-> 0]]
    /\ calls' = [calls EXCEPT ![p] = @ + 1]
    /\ UNCHANGED <<heap, root, order, count, panicked, latest, removed, arg>>

\* return that leaves the lock held (no deferred unlock).
returned_keepsLock(p) ==
    /\ call' = [call EXCEPT ![p] = idle]
    /\ UNCHANGED mu

\* return: the deferred Unlock / RUnlock.
returned(p) ==
    /\ mu' = release(mu, p, lockMode(call[p].op))
    /\ call' = [call EXCEPT ![p] = idle]

\* Insert up to the change of the leaf: the nil check, findLeafNode, the
\* overwrite of a key that is there (and return), or the new entry put into
\* the leaf.
InsertEdit(p, key, value) ==
    /\ panicked = ""
    /\ call[p].pc = "edit" /\ call[p].op = "Insert"
    /\ IF key = NIL
       THEN UNCHANGED <<heap, latest>> /\ returned(p)
       ELSE \E leaf \in {findLeafNode(heap, root, key)} :
               /\ latest' = [latest EXCEPT ![key] = value]
               /\ IF keyIndex(heap[leaf], key) # -1
                  THEN /\ heap' = [heap EXCEPT
                                     ![leaf].values[keyIndex(heap[leaf], key) + 1].Value = value]
                       /\ returned(p)
                  ELSE /\ heap' = putInLeaf(heap, leaf, key, value)
                       /\ call' = [call EXCEPT ![p].pc = "finish", ![p].leaf = leaf]
                       /\ UNCHANGED mu
    /\ UNCHANGED <<root, order, count, panicked, removed, arg, calls>>

\* the rest of insertIntoLeaf: the split cascade if the leaf overflows; then
\* the load of count.
InsertFinish(p) ==
    /\ panicked = ""
    /\ call[p].pc = "finish" /\ call[p].op = "Insert"
    /\ \E T \in {Compact(leafOverflow(Tree(heap, root, ""), call[p].leaf))} :
           /\ heap' = T.heap
           /\ root' = T.root
           /\ panicked' = T.panic
    /\ call' = [call EXCEPT ![p].pc = "store", ![p].leaf = NIL, ![p].count = count]
    /\ UNCHANGED <<order, count, latest, removed, arg, mu, calls>>

\* the store of count++, and return.
InsertStore(p) ==
    /\ panicked = ""
    /\ call[p].pc = "store" /\ call[p].op = "Insert"
    /\ count' = call[p].count + 1
    /\ returned(p)
    /\ UNCHANGED <<heap, root, order, panicked, latest, removed, arg, calls>>

\* Delete up to the change of the leaf: the nil check, findLeafNode, return
\* false for a key that is not there, or the entry cut out of the leaf.
DeleteEdit(p, key) ==
    /\ panicked = ""
    /\ call[p].pc = "edit" /\ call[p].op = "Delete"
    /\ IF key = NIL
       THEN UNCHANGED <<heap, latest>> /\ returned(p)
       ELSE \E leaf \in {findLeafNode(heap, root, key)} :
               /\ latest' = [latest EXCEPT ![key] = NoValue]
               /\ IF keyIndex(heap[leaf], key) = -1
                  THEN UNCHANGED heap /\ returned(p)
                  ELSE /\ heap' = cutFromLeaf(heap, leaf, keyIndex(heap[leaf], key))
                       /\ call' = [call EXCEPT ![p].pc = "finish", ![p].leaf = leaf]
                       /\ UNCHANGED mu
    /\ UNCHANGED <<root, order, count, panicked, removed, arg, calls>>

\* the rest of deleteFromLeaf: the rebalance cascade if the leaf underflows;
\* then the load of count.
DeleteFinish(p) ==
    /\ panicked = ""
    /\ call[p].pc = "finish" /\ call[p].op = "Delete"
    /\ \E T \in {Compact(leafUnderflow(Tree(heap, root, ""), call[p].leaf))} :
           /\ heap' = T.heap
           /\ root' = T.root
           /\ panicked' = T.panic
    /\ call' = [call EXCEPT ![p].pc = "store", ![p].leaf = NIL, ![p].count = count]
    /\ UNCHANGED <<order, count, latest, removed, arg, mu, calls>>

\* the store of count--, and return true.
DeleteStore(p) ==
    /\ panicked = ""
    /\ call[p].pc = "store" /\ call[p].op = "Delete"
    /\ count' = call[p].count - 1
    /\ removed' = removed + 1
    /\ returned(p)
    /\ UNCHANGED <<heap, root, order, panicked, latest, arg, calls>>

\* what a reader leaves behind and returns: [heap, root, count, ret].
Observed(ret) == [heap |-> heap, root |-> root, count |-> count, ret |-> ret]

SearchOp(key) == Observed(Search(heap, root, key))

RangeQueryOp(start, end) == Observed(RangeQuery(heap, root, start, end))

ScanAllOp == Observed(ScanAll(heap, root))

SizeOp == Observed(Size)

\* Height that walks down with t.root itself instead of a local node.
HeightOp_walksRoot ==
    [heap |-> heap, root |-> leftMost(heap, root), count |-> count,
     ret |-> Height(heap, root)]

HeightOp == Observed(Height(heap, root))

StringOp == Observed(String(heap, root))

\* the outcomes of reader op over its arguments.
readOutcomes(op) ==
    CASE op = "Search" -> {SearchOp(key) : key \in Keys \cup {NIL}}
      [] op = "RangeQuery" ->
            {RangeQueryOp(ab[1], ab[2]) : ab \in (Keys \cup {NIL}) \X (Keys \cup {NIL})}
      [] op = "ScanAll" -> {ScanAllOp}
      [] op = "Size" -> {SizeOp}
      [] op = "Height" -> {HeightOp}
      [] op = "String" -> {StringOp}

\* the body of a reader, and return.
Read(p) ==
    /\ panicked = ""
    /\ call[p].pc = "read"
    /\ \E R \in readOutcomes(call[p].op) :
           /\ heap' = R.heap
           /\ root' = R.root
           /\ count' = R.count
    /\ returned(p)
    /\ UNCHANGED <<order, panicked, latest, removed, arg, calls>>

\* callers that each make up to MaxCalls calls, of any method on any key.
Call(p) == calls[p] < MaxCalls /\ \E op \in Mutators \cup Readers : Acquire(p, op)

InsertEditAny(p) ==
    \E key \in Keys \cup {NIL} : \E value \in ValuesOf(key) : InsertEdit(p, key, value)

DeleteEditAny(p) == \E key \in Keys \cup {NIL} : DeleteEdit(p, key)

ConcurrentNext ==
    \E p \in Callers :
       \/ Call(p)
       \/ InsertEditAny(p)
       \/ InsertFinish(p)
       \/ InsertStore(p)
       \/ DeleteEditAny(p)
       \/ DeleteFinish(p)
       \/ DeleteStore(p)
       \/ Read(p)

SpecConcurrent == Init /\ [][ConcurrentNext]_vars

\* the same callers with the wait for the lock made visible: a call starts
\* (Request) and then blocks in Lock / RLock until the lock is free for it
\* (Grant).
Request(p, op) ==
    /\ panicked = ""
    /\ call[p].pc = "idle"
    /\ calls[p] < MaxCalls
    /\ call' = [call EXCEPT ![p] = [pc |-> "wait", op |-> op, leaf |-> NIL, count |-> 0]]
    /\ calls' = [calls EXCEPT ![p] = @ + 1]
    /\ UNCHANGED <<heap, root, order, count, panicked, latest, removed, arg, mu>>

Grant(p) ==
    /\ panicked = ""
    /\ call[p].pc = "wait"
    /\ canAcquire(mu, lockMode(call[p].op))
    /\ mu' = acquire(mu, p, lockMode(call[p].op))
    /\ call' = [call EXCEPT ![p].pc = IF call[p].op \in Mutators THEN "edit" ELSE "read"]
    /\ UNCHANGED <<heap, root, order, count, panicked, latest, removed, arg, calls>>

\* the methods these callers use: the two writers, and the two readers with
\* an early return.
FairOps == Mutators \cup {"Search", "RangeQuery"}

RequestAny(p) == \E op \in FairOps : Request(p, op)

\* the keys these callers insert and delete.
FairKeys == 1..MaxFairKey

FairInsertEdit(p) == \E key \in FairKeys \cup {NIL} : InsertEdit(p, key, 1)

FairDeleteEdit(p) == \E key \in FairKeys \cup {NIL} : DeleteEdit(p, key)

\* the steps of a call that holds the lock.
Body(p) ==
    \/ FairInsertEdit(p)
    \/ InsertFinish(p)
    \/ InsertStore(p)
    \/ FairDeleteEdit(p)
    \/ DeleteFinish(p)
    \/ DeleteStore(p)
    \/ Read(p)

FairNext ==
    \E p \in Callers :
       \/ RequestAny(p)
       \/ Grant(p)
       \/ Body(p)

\* the scheduler runs every goroutine that can run, and the lock is fair: a
\* caller that could take it again and again does take it.
Fairness == \A p \in Callers : WF_vars(Body(p)) /\ SF_vars(Grant(p))

SpecFair == Init /\ [][FairNext]_vars /\ Fairness

\* callers that each insert the keys of their own range, once each, in any
\* order.
RangeSize == MaxKey \div NumCallers

ownKeys(p) == ((p - 1) * RangeSize + 1)..(p * RangeSize)

OwnCall(p) == calls[p] < RangeSize /\ Acquire(p, "Insert")

OwnInsertEdit(p) == \E key \in ownKeys(p) : latest[key] = NoValue /\ InsertEdit(p, key, 1)

DisjointNext ==
    \E p \in Callers :
       \/ OwnCall(p)
       \/ OwnInsertEdit(p)
       \/ InsertFinish(p)
       \/ InsertStore(p)

SpecDisjoint == Init /\ [][DisjointNext]_vars

\* ------------------------------------------------------ tree inspection
Range(s) == {s[i] : i \in 1..Len(s)}

\* the nodes of the tree: those reachable from the root through children.
TreeNodes == Range(Preorder(heap, root))
TreeLeaves == {n \in TreeNodes : heap[n].isLeaf}
TreeInternals == {n \in TreeNodes : ~heap[n].isLeaf}

RECURSIVE SubtreeKeys(_)
SubtreeKeys(n) ==
    IF heap[n].isLeaf THEN Range(heap[n].keys)
    ELSE UNION {SubtreeKeys(c) : c \in Range(heap[n].children)}

RECURSIVE LeafDepths(_, _)
LeafDepths(n, d) ==
    IF heap[n].isLeaf THEN {d}
    ELSE UNION {LeafDepths(c, d + 1) : c \in Range(heap[n].children)}

KeysOf(kvs) == [i \in 1..Len(kvs) |-> kvs[i].Key]

StrictlyIncreasing(s) == \A i \in 1..(Len(s) - 1) : comparator(s[i], s[i + 1]) < 0

NoRepeat(s) == \A i, j \in 1..Len(s) : i # j => s[i] # s[j]

RECURSIVE Filter(_, _, _)
Filter(kvs, lo, hi) ==
    IF kvs = <<>> THEN <<>>
    ELSE (IF comparator(Head(kvs).Key, lo) >= 0 /\ comparator(Head(kvs).Key, hi) < 0
          THEN <<Head(kvs)>> ELSE <<>>) \o Filter(Tail(kvs), lo, hi)

\* the entries kvs without those of key k.
RECURSIVE Without(_, _)
Without(kvs, k) ==
    IF kvs = <<>> THEN <<>>
    ELSE (IF comparator(Head(kvs).Key, k) = 0 THEN <<>> ELSE <<Head(kvs)>>)
         \o Without(Tail(kvs), k)

\* what Search must return for k according to the history of calls.
Expected(k) == IF latest[k] = NoValue THEN <<NIL, FALSE>> ELSE <<latest[k], TRUE>>

Stored == {k \in Keys : latest[k] # NoValue}

\* the keys the tree holds: those of the leaves below the root and of the
\* leaf chain.
Present == SubtreeKeys(root) \cup Range(KeysOf(ScanAll(heap, root)))

\* ----------------------------------------------------------------- claims

\* C1: round trip.  After any sequence of Insert and Delete calls, Search(k)
\* returns (v, true) when the last call on k was Insert(k, v), and
\* (nil, false) when k was never inserted or was deleted since.
C1_RoundTrip == \A k \in Keys : Search(heap, root, k) = Expected(k)

\* C2: after every Insert or Delete, the walk along next from the left-most
\* leaf visits every leaf of the tree exactly once, and the keys it yields
\* are strictly increasing (so no key is in the tree twice).
C2_LeafChain ==
    /\ NoRepeat(LeafChain(heap, root))
    /\ Range(LeafChain(heap, root)) = TreeLeaves
    /\ StrictlyIncreasing(KeysOf(ScanAll(heap, root)))

\* C3: routing.  In every Internal node, the keys below child 0 are < k0,
\* those below child i are >= k(i-1) and < ki, those below the last child
\* are >= the last separator; and findLeafNode(k) ends at the leaf that
\* holds k, for every k in the tree.
C3_Routing ==
    /\ \A n \in TreeInternals : \A i \in 1..Len(heap[n].children) :
          \A k \in SubtreeKeys(heap[n].children[i]) :
             /\ (i > 1 /\ i - 1 <= Len(heap[n].keys)) => comparator(k, heap[n].keys[i - 1]) >= 0
             /\ i <= Len(heap[n].keys) => comparator(k, heap[n].keys[i]) < 0
    /\ \A l \in TreeLeaves : \A k \in Range(heap[l].keys) : findLeafNode(heap, root, k) = l

\* C4: count.  Size() equals the number of entries ScanAll() returns, and
\* is never negative.
C4_Count == Size = Len(ScanAll(heap, root)) /\ Size >= 0

C4_Witness == removed >= 2 /\ count >= 3 /\ Height(heap, root) = 3

\* C5: Delete(k) returns true exactly when k is stored; then Size() goes
\* down by one and the entry of k is the only one to go: every other entry
\* stays, with its value.
C5_Delete ==
    \A k \in Keys :
       /\ DeleteOp(k).ok = (k \in Stored)
       /\ DeleteOp(k).ok =>
             /\ DeleteOp(k).count = count - 1
             /\ ScanAll(DeleteOp(k).heap, DeleteOp(k).root)
                   = Without(ScanAll(heap, root), k)
       /\ ~DeleteOp(k).ok =>
             /\ DeleteOp(k).count = count
             /\ ScanAll(DeleteOp(k).heap, DeleteOp(k).root) = ScanAll(heap, root)

\* C6: range.  For all a < b, RangeQuery(a, b) returns without error the
\* entries of ScanAll() with a <= key < b, in the same order.
C6_Range ==
    \A a \in Keys : \A b \in (a + 1)..(MaxKey + 1) :
       /\ RangeQuery(heap, root, a, b).err = ""
       /\ RangeQuery(heap, root, a, b).result = Filter(ScanAll(heap, root), a, b)

\* C7: occupancy.  Every non-root leaf holds between minKeys and order-1
\* entries, every non-root Internal node has between minChildren and order
\* children, and no node holds more than order-1 keys.
C7_Occupancy ==
    /\ \A l \in TreeLeaves \ {root} :
          minKeys <= Len(heap[l].keys) /\ Len(heap[l].keys) <= order - 1
    /\ \A n \in TreeInternals \ {root} :
          minChildren <= Len(heap[n].children) /\ Len(heap[n].children) <= order
    /\ \A n \in TreeNodes : Len(heap[n].keys) <= order - 1

C7_Witness ==
    /\ order = 4 /\ removed >= 1
    /\ \E n \in TreeInternals \ {root} : Len(heap[n].children) = minChildren
    /\ \E n \in TreeInternals \ {root} : Len(heap[n].children) > minChildren
    /\ \E l \in TreeLeaves : Len(heap[l].keys) = minKeys
    /\ \E l \in TreeLeaves : Len(heap[l].keys) = order - 1

\* C8: shape.  Every Internal node has one more child than separators, and
\* all leaves are at the same depth.
C8_Shape ==
    /\ \A n \in TreeInternals : Len(heap[n].children) = Len(heap[n].keys) + 1
    /\ Cardinality(LeafDepths(root, 1)) = 1

C8_Witness == removed >= 3 /\ LeafDepths(root, 1) = {3} /\ Len(heap[root].keys) >= 2

\* C9: after inserts only, every inserted key is found with the value of its
\* latest Insert, and Size() is the number of distinct keys inserted.
C9_InsertOnly ==
    /\ \A k \in Stored : Search(heap, root, k) = <<latest[k], TRUE>>
    /\ Size = Cardinality(Stored)

C9_Witness ==
    /\ Height(heap, root) = 3
    /\ \E k \in Keys : latest[k] = 2 /\ Search(heap, root, k) = <<2, TRUE>>

\* C10: ordering.  After inserts only, the keys of ScanAll() are strictly
\* increasing.
C10_Ordering == StrictlyIncreasing(KeysOf(ScanAll(heap, root)))

C10_Witness == Len(ScanAll(heap, root)) = MaxKey /\ Len(LeafChain(heap, root)) >= 4

\* R is the outcome of an Insert that only overwrote the value of k with v:
\* success, the same count, root and nodes, and no entry changed but k's.
updated(R, k, v) ==
    /\ R.ok /\ R.panic = ""
    /\ R.count = count
    /\ R.root = root
    /\ Len(R.heap) = Len(heap)
    /\ Search(R.heap, R.root, k) = <<v, TRUE>>
    /\ \A n \in 1..Len(heap) :
          /\ R.heap[n].isLeaf = heap[n].isLeaf
          /\ R.heap[n].keys = heap[n].keys
          /\ R.heap[n].children = heap[n].children
          /\ R.heap[n].next = heap[n].next
          /\ R.heap[n].parent = heap[n].parent
          /\ Len(R.heap[n].values) = Len(heap[n].values)
          /\ \A i \in 1..Len(heap[n].values) :
                heap[n].values[i].Key # k => R.heap[n].values[i] = heap[n].values[i]

\* C11: idempotent update.  Insert(k, v2) on a tree that stores k succeeds,
\* leaves Size() unchanged, makes Search(k) return v2 and changes nothing
\* else: no node is created or split, every other entry, the node structure
\* and the leaf chain stay as they were.
C11_Update == \A k \in Stored : \A v \in Values : updated(InsertOp(k, v), k, v)

\* C12: for every valid order, after inserting distinct keys and deleting
\* every one of them again, every Delete returned true, Size() is 0,
\* ScanAll() is empty and Height() is 1: the root is a single empty leaf.
C12_InsertDeleteAll ==
    /\ \A k \in Stored : DeleteOp(k).ok
    /\ Stored = {} =>
          /\ Size = 0
          /\ ScanAll(heap, root) = <<>>
          /\ Height(heap, root) = 1
          /\ heap[root].isLeaf /\ heap[root].keys = <<>>

\* R is the outcome of a Delete that found nothing: false, no panic, and the
\* same nodes, root and count.
absent(R) ==
    /\ ~R.ok /\ R.panic = ""
    /\ R.heap = heap /\ R.root = root /\ R.count = count

\* C13: absence is a boolean and has no side effect.  For a nil key and for
\* every key the tree does not hold, Search returns (nil, false), Delete
\* returns false, and Size(), the root, every node and the leaf chain stay
\* as they were.
C13_Absence ==
    \A k \in (Keys \cup {NIL}) \ Present :
       /\ Search(heap, root, k) = <<NIL, FALSE>>
       /\ absent(DeleteOp(k))

C13_Witness ==
    /\ Height(heap, root) = 3 /\ removed >= 1
    /\ \E k \in Keys \ Present : absent(DeleteOp(k))

\* R is the outcome of a call that returned no error and did not panic.
succeeded(R) == R.ok /\ R.panic = ""

\* C14: Insert(nil, v) returns an error and leaves count, root and every
\* node (so the leaf chain too) unchanged; Insert of a non-nil key returns
\* no error.
C14_NilKey ==
    /\ \A v \in Values : InsertOp(NIL, v) = Outcome(heap, root, "", count, FALSE)
    /\ \A k \in Keys : \A v \in ValuesOf(k) : succeeded(InsertOp(k, v))

C14_Witness ==
    /\ Height(heap, root) >= 2
    /\ ~InsertOp(NIL, 1).ok /\ InsertOp(NIL, 1).heap = heap
    /\ \E k \in Keys \ Present :
          InsertOp(k, 1).ok /\ Len(InsertOp(k, 1).heap) > Len(heap)

\* the arguments RangeQuery rejects.
badRange(a, b) == a = NIL \/ b = NIL \/ comparator(a, b) >= 0

\* C15: RangeQuery(start, end) returns an error and no result when start is
\* nil, end is nil or start >= end (start = end included), and no error
\* otherwise.
C15_RangeErrors ==
    \A a \in Keys \cup {NIL} : \A b \in Keys \cup {NIL} :
       /\ (RangeQuery(heap, root, a, b).err # "") = badRange(a, b)
       /\ badRange(a, b) => RangeQuery(heap, root, a, b).result = <<>>

C15_Witness ==
    /\ Height(heap, root) >= 2
    /\ \E a \in Keys : \E b \in Keys :
          /\ RangeQuery(heap, root, a, b).err = ""
          /\ Len(RangeQuery(heap, root, a, b).result) >= 2
          /\ RangeQuery(heap, root, b, a).err = "start must be less than end"
          /\ RangeQuery(heap, root, a, a).err = "start must be less than end"
          /\ RangeQuery(heap, root, NIL, b).err = "start and end cannot be nil"

\* C16: NewBPlusTree(order, comparator) panics and builds nothing when
\* order < 3 or the comparator is nil; otherwise it returns a tree whose root
\* is one empty leaf, with Size() = 0, Height() = 1 and an empty ScanAll().
C16_Construction ==
    /\ (panicked # "") = (arg.order < 3 \/ arg.comparator = "nil")
    /\ panicked # "" => heap = <<>> /\ root = NIL
    /\ (panicked = "" /\ Stored = {}) =>
          /\ order = arg.order
          /\ heap[root].isLeaf /\ heap[root].keys = <<>> /\ heap[root].values = <<>>
          /\ heap[root].next = NIL /\ heap[root].parent = NIL
          /\ Size = 0
          /\ Height(heap, root) = 1
          /\ ScanAll(heap, root) = <<>>

C16_Witness == panicked = "comparator is required" /\ arg.order = MaxOrder

\* C17: the readers are read-only.  A call of Search, RangeQuery, ScanAll,
\* Size, Height or String leaves the root, every node (keys, values,
\* children, next, parent) and count exactly as they were.
C17_ReadOnly ==
    [][\A p \in Callers :
          (call[p].pc = "read" /\ call'[p].pc = "idle") => UNCHANGED <<heap, root, count>>]_vars

C17_Witness ==
    /\ Height(heap, root) >= 2
    /\ \E p \in Callers : \E q \in Callers :
          /\ call[p].pc = "read" /\ call[p].op = "Height"
          /\ call[q].pc = "read" /\ call[q].op = "ScanAll"

\* the tree is whole: count is the number of entries, no node is over or
\* under its occupancy, and the leaves are at one depth.
WholeTree == C4_Count /\ C7_Occupancy /\ C8_Shape

\* C18: linearizability under the tree-wide lock.  While Insert or Delete is
\* between its first access and the end of its cascade it holds the mutex
\* alone and no other call is running; readers hold it shared, with no
\* writer; and whenever a call is about to look at the tree, the tree is
\* whole: as it was before a mutation or as it is after, never in between.
C18_Linearizable ==
    /\ \A p \in Callers :
          call[p].pc \in {"edit", "finish", "store"} =>
             /\ mu.writer = p /\ mu.readers = {}
             /\ \A q \in Callers \ {p} : call[q].pc = "idle"
    /\ \A p \in Callers :
          call[p].pc = "read" => p \in mu.readers /\ mu.writer = NIL
    /\ (\E p \in Callers : call[p].pc \in {"edit", "read"}) => WholeTree

C18_Witness ==
    /\ Height(heap, root) >= 2
    /\ \E p \in Callers : call[p].pc = "finish" /\ ~C7_Occupancy
    /\ \E q \in Callers : call[q].pc = "idle" /\ calls[q] >= 1 /\ calls[q] < MaxCalls

AllReturned == \A p \in Callers : call[p].pc = "idle"

RECURSIVE TotalCalls(_)
TotalCalls(S) ==
    IF S = {} THEN 0 ELSE calls[least(S)] + TotalCalls(S \ {least(S)})

\* C19: when the callers each insert their own range of keys, then under
\* every interleaving, once they have all returned, Size() is the number of
\* keys inserted, ScanAll() has that length and is strictly increasing.
C19_DisjointInserts ==
    AllReturned =>
       /\ Size = TotalCalls(Callers)
       /\ Len(ScanAll(heap, root)) = TotalCalls(Callers)
       /\ StrictlyIncreasing(KeysOf(ScanAll(heap, root)))

C19_Witness ==
    /\ AllReturned
    /\ \A p \in Callers : calls[p] = RangeSize
    /\ Size = NumCallers * RangeSize
    /\ Height(heap, root) >= 2

\* C20: under every interleaving of callers that mix Insert, Search and
\* Delete (and the other readers) on the same keys, once all callers have
\* returned Size() is not negative and ScanAll() returns Size() entries.
C20_Quiescent ==
    AllReturned => Size >= 0 /\ Len(ScanAll(heap, root)) = Size

C20_Witness ==
    /\ AllReturned
    /\ \A p \in Callers : calls[p] = MaxCalls
    /\ removed >= 2 /\ Size >= 1

\* every node from n up to the root holds order-1 keys, so that one more
\* entry below n makes each of them split in turn, the root last.
RECURSIVE fullToRoot(_)
fullToRoot(n) ==
    /\ Len(heap[n].keys) = order - 1
    /\ heap[n].parent # NIL => fullToRoot(heap[n].parent)

\* Insert(k, _) adds an entry to a leaf whose split cascade reaches the root.
splitsRoot(k) ==
    /\ k # NIL
    /\ keyIndex(heap[findLeafNode(heap, root, k)], k) = -1
    /\ fullToRoot(findLeafNode(heap, root, k))

\* R is the outcome of Insert(k, _) on a tree of height H: the height is H
\* or H + 1, and it is H + 1 exactly when the root was split, which leaves
\* a new root with one separator and two children.
grewByRootSplit(R, H, k) ==
    /\ Height(R.heap, R.root) \in {H, H + 1}
    /\ (Height(R.heap, R.root) = H + 1) = splitsRoot(k)
    /\ Height(R.heap, R.root) = H + 1 =>
          /\ Len(R.heap[R.root].keys) = 1
          /\ Len(R.heap[R.root].children) = 2

\* C21: a single Insert leaves Height() unchanged or increases it by exactly
\* one, the latter only when the split cascade has split the root; no
\* Insert decreases Height().
C21_InsertHeight ==
    \A k \in Keys \cup {NIL} : \A v \in ValuesOf(k) :
       grewByRootSplit(InsertOp(k, v), Height(heap, root), k)

C21_Witness ==
    /\ Height(heap, root) = 2 /\ removed >= 1
    /\ \E k \in Keys : Height(InsertOp(k, 1).heap, InsertOp(k, 1).root) = 3

\* R is the outcome of a Delete on a tree of height H: the height is H or
\* H - 1, H - 1 only with fewer nodes, and the root is not left as an
\* Internal node without separators.
shrankByCollapse(R, H) ==
    /\ Height(R.heap, R.root) \in {H, H - 1}
    /\ Height(R.heap, R.root) = H - 1 => Len(R.heap) < Len(heap)
    /\ ~R.heap[R.root].isLeaf => Len(R.heap[R.root].keys) >= 1

\* C22: a single Delete leaves Height() unchanged or decreases it by exactly
\* one (root collapse: a root left with no separator is replaced by its only
\* child); no Delete increases Height().
C22_DeleteHeight ==
    \A k \in Keys \cup {NIL} : shrankByCollapse(DeleteOp(k), Height(heap, root))

C22_Witness ==
    /\ Height(heap, root) = 3
    /\ \E k \in Keys : Height(DeleteOp(k).heap, DeleteOp(k).root) = 2

\* the number of edges on the path from n down its first children to a leaf.
RECURSIVE Edges(_)
Edges(n) == IF heap[n].isLeaf THEN 0 ELSE 1 + Edges(heap[n].children[1])

\* C23 as stated: Height() returns the root-to-leaf edge count, with a
\* minimum of 1 (for the single leaf root).
C23_EdgeCount ==
    Height(heap, root) = IF Edges(root) < 1 THEN 1 ELSE Edges(root)

\* C23, amended: Height() is the number of levels from the root down to the
\* leaves, i.e. the root-to-leaf edge count plus one; it is 1 exactly while
\* the root is a leaf, which it is as long as no more than order-1 entries
\* were ever inserted, and greater than 1 once a split has made an Internal
\* root.
C23_Height ==
    /\ Height(heap, root) = Edges(root) + 1
    /\ LeafDepths(root, 1) = {Height(heap, root)}
    /\ heap[root].isLeaf = (Height(heap, root) = 1)
    /\ count + removed <= order - 1 => Height(heap, root) = 1
    /\ (removed = 0 /\ count > order - 1) => Height(heap, root) > 1

C23_Witness == Height(heap, root) = 3 /\ removed = 0

\* the callers that are inside a method, as writer or as reader.
Inside(pcs) == {p \in Callers : call[p].pc \in pcs}

\* the lock is held by exactly the callers that are inside a method.
HeldByCallersInside ==
    /\ mu.writer \in Inside({"edit", "finish", "store"}) \cup {NIL}
    /\ Inside({"edit", "finish", "store"}) \subseteq {mu.writer}
    /\ mu.readers = Inside({"read"})

\* the cascade that caller p is about to run makes at most one node per
\* level and a root (Insert), or drops at most one node per level and the
\* root (Delete).
CascadeBounded(p) ==
    call[p].pc = "finish" =>
       IF call[p].op = "Insert"
       THEN Len(Compact(leafOverflow(Tree(heap, root, ""), call[p].leaf)).heap)
               <= Len(heap) + Height(heap, root) + 1
       ELSE Len(Compact(leafUnderflow(Tree(heap, root, ""), call[p].leaf)).heap)
               >= Len(heap) - Height(heap, root) - 1

rawInsert(k, v) == insertIntoLeaf(Tree(heap, root, ""), findLeafNode(heap, root, k), k, v)

rawDelete(k) ==
    deleteFromLeaf(Tree(heap, root, ""), findLeafNode(heap, root, k),
                   keyIndex(heap[findLeafNode(heap, root, k)], k))

\* the key is in the leaf that Insert and Delete look into.
found(k) == k # NIL /\ keyIndex(heap[findLeafNode(heap, root, k)], k) # -1

RECURSIVE nodesUnder(_, _)
nodesUnder(h, n) ==
    IF h[n].isLeaf THEN {n}
    ELSE {n} \cup UNION {nodesUnder(h, h[n].children[i]) : i \in 1..Len(h[n].children)}

keysUnder(h, n) == UNION {Range(h[m].keys) : m \in {x \in nodesUnder(h, n) : h[x].isLeaf}}

\* in h2, Internal node N has taken over the last child that its left
\* neighbour S had before the call.
lentLast(h2, S, N) ==
    /\ ~heap[S].isLeaf /\ ~heap[N].isLeaf
    /\ Len(h2[S].children) = Len(heap[S].children) - 1
    /\ h2[N].children # <<>>
    /\ h2[N].children[1] = Last(heap[S].children)

\* in h2, Internal node S has taken over the first child that its right
\* neighbour N had before the call.
lentFirst(h2, S, N) ==
    /\ ~heap[S].isLeaf /\ ~heap[N].isLeaf
    /\ Len(h2[N].children) = Len(heap[N].children) - 1
    /\ h2[S].children # <<>>
    /\ Last(h2[S].children) = heap[N].children[1]

routedAround(h2, S, N, sep) ==
    /\ \A k \in keysUnder(h2, S) : comparator(k, sep) < 0
    /\ \A k \in keysUnder(h2, N) : comparator(k, sep) >= 0

\* the neighbours S, N under separator sep of the tree h2: if one has
\* borrowed from the other, sep is the separator that left the lender and
\* routes between the two.
borrowRouted(h2, S, N, sep) ==
    /\ lentLast(h2, S, N) => sep = Last(heap[S].keys) /\ routedAround(h2, S, N, sep)
    /\ lentFirst(h2, S, N) => sep = heap[N].keys[1] /\ routedAround(h2, S, N, sep)

internalBorrowsRouted(R) ==
    \A P \in {n \in nodesUnder(R.heap, R.root) : ~R.heap[n].isLeaf} :
       \A i \in 1..Len(R.heap[P].keys) :
          borrowRouted(R.heap, R.heap[P].children[i], R.heap[P].children[i + 1],
                       R.heap[P].keys[i])

\* C25: when an underflowing Internal node borrows a separator and a child
\* from its left (right) sibling during Delete, the parent separator between
\* the two becomes the lender's former last (first) key, so that every key
\* under the left node of the pair is below it and every key under the right
\* node is at or above it.
C25_InternalBorrow == \A k \in Keys : found(k) => internalBorrowsRouted(rawDelete(k))

\* what a node holds: the keys of a leaf, the children of an Internal node.
items(h, n) == IF h[n].isLeaf THEN h[n].keys ELSE h[n].children

\* the siblings of node n before the call (NIL when there is none), and
\* whether they have keys to spare.
leftOf(n) ==
    IF IndexOf(heap[heap[n].parent].children, n) > 0
    THEN heap[heap[n].parent].children[IndexOf(heap[heap[n].parent].children, n)]
    ELSE NIL

rightOf(n) ==
    IF IndexOf(heap[heap[n].parent].children, n) + 2 <= Len(heap[heap[n].parent].children)
    THEN heap[heap[n].parent].children[IndexOf(heap[heap[n].parent].children, n) + 2]
    ELSE NIL

surplus(sib) == sib # NIL /\ Len(heap[sib].keys) > minKeys

\* node n, not the root, is left with len keys, fewer than minKeys.
underflows(n, len) == len < minKeys /\ heap[n].parent # NIL

same(R, sib) == sib # NIL => R.heap[sib] = heap[sib]

gone(R, n) == n \notin nodesUnder(R.heap, R.root)

\* R is the tree after a call in which node n underflowed holding `before`:
\* the left sibling lends if it can, else the right one does; else n goes
\* into the left sibling if there is one, and else takes in the right one.
followsPolicy(R, n, before, left, right) ==
    IF surplus(left)
    THEN /\ items(R.heap, n) = <<Last(items(heap, left))>> \o before
         /\ items(R.heap, left) = Upto(items(heap, left), Len(items(heap, left)) - 1)
         /\ same(R, right)
    ELSE IF surplus(right)
    THEN /\ items(R.heap, n) = before \o <<items(heap, right)[1]>>
         /\ items(R.heap, right) = Tail(items(heap, right))
         /\ same(R, left)
    ELSE IF left # NIL
    THEN /\ items(R.heap, left) = items(heap, left) \o before
         /\ gone(R, n) /\ ~gone(R, left)
         /\ right # NIL => items(R.heap, right) = items(heap, right) /\ ~gone(R, right)
    ELSE /\ right # NIL
         /\ items(R.heap, n) = before \o items(heap, right)
         /\ gone(R, right) /\ ~gone(R, n)

\* the leaf that a merge of leaf n with a sibling takes out of the parent.
absorbed(n) == IF leftOf(n) # NIL THEN n ELSE rightOf(n)

\* the children of the parent of leaf n once n has been merged.
childrenLeft(n) ==
    RemoveAt(heap[heap[n].parent].children,
             IndexOf(heap[heap[n].parent].children, absorbed(n)))

\* Delete at position idx of leaf n, with outcome R: if the leaf underflows
\* it follows the policy, and if it is merged and its parent underflows in
\* turn, so does the parent.
policyKept(R, n, idx) ==
    underflows(n, Len(heap[n].keys) - 1) =>
       /\ followsPolicy(R, n, RemoveAt(heap[n].keys, idx), leftOf(n), rightOf(n))
       /\ (~surplus(leftOf(n)) /\ ~surplus(rightOf(n))
             /\ underflows(heap[n].parent, Len(heap[heap[n].parent].keys) - 1)) =>
             followsPolicy(R, heap[n].parent, childrenLeft(n),
                           leftOf(heap[n].parent), rightOf(heap[n].parent))

\* C26: an underflowing non-root node, leaf or Internal, borrows from its
\* left sibling if that one has more than minKeys keys, the right sibling
\* staying as it is; it borrows from the right sibling only if there is no
\* left sibling or the left one has nothing to spare; if neither has, it is
\* merged into its left sibling when there is one, and takes in its right
\* sibling only as the first child.
C26_TieBreak ==
    \A k \in Keys :
       found(k) => policyKept(rawDelete(k), findLeafNode(heap, root, k),
                              keyIndex(heap[findLeafNode(heap, root, k)], k))

\* a leaf between two siblings that both have keys to spare is about to
\* underflow.
bothSurplus(n) ==
    /\ underflows(n, Len(heap[n].keys) - 1)
    /\ surplus(leftOf(n)) /\ surplus(rightOf(n))

C26_Witness ==
    /\ \E n \in TreeLeaves : bothSurplus(n)
    /\ \E n \in TreeLeaves :
          /\ underflows(n, Len(heap[n].keys) - 1)
          /\ ~surplus(leftOf(n)) /\ ~surplus(rightOf(n))
          /\ underflows(heap[n].parent, Len(heap[heap[n].parent].keys) - 1)

\* leaf n of h holds entries vs, under the keys of vs.
holds(h, n, vs) == h[n].values = vs /\ h[n].keys = KeysOf(vs)

\* h2 differs from the heap before the call in leaves a and b and in
\* separator i of parent P only, and that separator is the first key of b.
onlyPairChanged(h2, a, b, P, i) ==
    /\ Len(h2) = Len(heap)
    /\ \A m \in (1..Len(heap)) \ {a, b, P} : h2[m] = heap[m]
    /\ h2[a].next = heap[a].next /\ h2[b].next = heap[b].next
    /\ h2[a].parent = P /\ h2[b].parent = P
    /\ h2[P] = [heap[P] EXCEPT !.keys[i] = h2[b].keys[1]]

\* Delete at position idx of leaf n, with outcome R: if n underflows and a
\* sibling lends, one entry has moved and the separator between the two
\* leaves is the first key of the right-hand one.
oneEntryMoved(R, n, idx, left, right) ==
    underflows(n, Len(heap[n].keys) - 1) =>
       IF surplus(left)
       THEN /\ holds(R.heap, left, Upto(heap[left].values, Len(heap[left].values) - 1))
            /\ holds(R.heap, n, <<Last(heap[left].values)>> \o RemoveAt(heap[n].values, idx))
            /\ onlyPairChanged(R.heap, left, n, heap[n].parent,
                               IndexOf(heap[heap[n].parent].children, n))
            /\ R.root = root
       ELSE surplus(right) =>
            /\ holds(R.heap, n, RemoveAt(heap[n].values, idx) \o <<heap[right].values[1]>>)
            /\ holds(R.heap, right, Tail(heap[right].values))
            /\ onlyPairChanged(R.heap, n, right, heap[n].parent,
                               IndexOf(heap[heap[n].parent].children, n) + 1)
            /\ R.root = root

\* C27: when a leaf borrows from a sibling, exactly one entry moves (the
\* left sibling's last to the front of the leaf, or the right sibling's
\* first to its end), no other entry changes place, and the parent separator
\* between the two leaves is the first key of the right-hand leaf after the
\* move.
C27_LeafBorrow ==
    \A k \in Keys :
       found(k) => oneEntryMoved(rawDelete(k), findLeafNode(heap, root, k),
                                 keyIndex(heap[findLeafNode(heap, root, k)], k),
                                 leftOf(findLeafNode(heap, root, k)),
                                 rightOf(findLeafNode(heap, root, k)))

C27_Witness ==
    \E n \in TreeLeaves :
       /\ underflows(n, Len(heap[n].keys) - 1)
       /\ leftOf(n) # NIL /\ ~surplus(leftOf(n)) /\ surplus(rightOf(n))
       /\ Height(heap, root) = 3

\* the entries of leaf n with (k, v) put in, before any split.
entriesWith(n, k, v) == putInLeaf(heap, n, k, v)[n].values

\* the keys of the proper ancestors of node n in h.
RECURSIVE keysAbove(_, _)
keysAbove(h, n) ==
    IF h[n].parent = NIL THEN {}
    ELSE Range(h[h[n].parent].keys) \cup keysAbove(h, h[n].parent)

\* in h2, sep stands in the parent immediately before child new, whose left
\* neighbour is n; or the parent was split between n and new, and sep moved
\* up.
separates(h2, n, new, sep) ==
    IF h2[n].parent = h2[new].parent
    THEN /\ IndexOf(h2[h2[new].parent].children, new) >= 1
         /\ h2[h2[new].parent].children[IndexOf(h2[h2[new].parent].children, new)] = n
         /\ h2[h2[new].parent].keys[IndexOf(h2[h2[new].parent].children, new)] = sep
    ELSE /\ Last(h2[h2[n].parent].children) = n
         /\ h2[h2[new].parent].children[1] = new
         /\ sep \in keysAbove(h2, h2[new].parent)

\* a new root (index r of h2) over left and right with the one separator sep.
rootOver(R, r, left, right, sep) ==
    /\ R.root = r
    /\ ~R.heap[r].isLeaf /\ R.heap[r].parent = NIL
    /\ R.heap[r].keys = <<sep>>
    /\ R.heap[r].children = <<left, right>>
    /\ R.heap[left].parent = r /\ R.heap[right].parent = r

\* Insert of a new entry into leaf n, with outcome R, where E are the
\* entries of n with the new one and m = len/2: without overflow the leaf
\* holds E; with overflow n holds E[0, m), the new leaf holds E[m, len) and
\* follows n in the chain, and its first key separates the two.
leafSplitAt(R, n, E, m, new) ==
    IF Len(E) <= order - 1
    THEN holds(R.heap, n, E) /\ Len(R.heap) = Len(heap) /\ R.root = root
    ELSE /\ holds(R.heap, n, Upto(E, m))
         /\ holds(R.heap, new, From(E, m))
         /\ R.heap[new].isLeaf
         /\ R.heap[new].next = heap[n].next
         /\ R.heap[n].next = new
         /\ IF heap[n].parent = NIL
            THEN rootOver(R, new + 1, n, new, E[m + 1].Key)
            ELSE separates(R.heap, n, new, E[m + 1].Key)

\* C28: when an Insert makes a leaf hold more than order-1 entries, the leaf
\* is split at m = len/2: it keeps entries [0, m), a new leaf receives
\* [m, len) and is spliced into the chain right after it, and the new leaf's
\* first key is the separator in the parent immediately before the new child
\* (or the only separator of a new Internal root over the two).
C28_LeafSplit ==
    \A k \in Keys : \A v \in ValuesOf(k) :
       ~found(k) =>
          leafSplitAt(rawInsert(k, v), findLeafNode(heap, root, k),
                      entriesWith(findLeafNode(heap, root, k), k, v),
                      Len(entriesWith(findLeafNode(heap, root, k), k, v)) \div 2,
                      Len(heap) + 1)

C28_Witness ==
    \E k \in Keys :
       /\ ~found(k)
       /\ Len(heap[findLeafNode(heap, root, k)].keys) = order - 1
       /\ heap[findLeafNode(heap, root, k)].next # NIL
       /\ heap[findLeafNode(heap, root, k)].parent # NIL
       /\ removed >= 1

\* the first key of the leaf that the split of leaf n on Insert(k, v) makes.
newSeparator(n, k, v) == entriesWith(n, k, v)[Len(entriesWith(n, k, v)) \div 2 + 1].Key

\* the keys and the children of the parent of leaf n once the split of n has
\* put its separator and the new leaf (index new) in.
keysWith(n, sep) ==
    InsertAt(heap[heap[n].parent].keys, IndexOf(heap[heap[n].parent].children, n), sep)

childrenWith(n, new) ==
    InsertAt(heap[heap[n].parent].children,
             IndexOf(heap[heap[n].parent].children, n) + 1, new)

\* Internal node P, holding keys K and children C, was split at s = len/2
\* into P and N2: K[s] is in neither, P keeps K[0, s) and C[0, s], N2 has
\* K(s, len) and C(s, len], each child refers to the node it is under, K[s]
\* is the one separator of a new root or stands in an ancestor, and no node
\* is left with more than order-1 keys.
internalSplitAt(R, P, K, C, s, N2) ==
    /\ R.heap[P].keys = Upto(K, s)
    /\ R.heap[P].children = Upto(C, s + 1)
    /\ ~R.heap[N2].isLeaf
    /\ R.heap[N2].keys = From(K, s + 1)
    /\ R.heap[N2].children = From(C, s + 1)
    /\ \A i \in 1..Len(C) : R.heap[C[i]].parent = IF i <= s + 1 THEN P ELSE N2
    /\ K[s + 1] \notin Range(R.heap[P].keys) \cup Range(R.heap[N2].keys)
    /\ IF heap[P].parent = NIL
       THEN rootOver(R, N2 + 1, P, N2, K[s + 1])
       ELSE K[s + 1] \in keysAbove(R.heap, N2)
    /\ \A x \in nodesUnder(R.heap, R.root) : Len(R.heap[x].keys) <= order - 1

\* the split of leaf n overflows its parent.
overflowsParent(n) ==
    /\ Len(heap[n].keys) = order - 1
    /\ heap[n].parent # NIL
    /\ Len(heap[heap[n].parent].keys) = order - 1

\* C29: when an Internal node exceeds order-1 separators, its middle
\* separator (index len/2) moves up to the parent or into a new root and is
\* in neither half; the separators before it stay with the first len/2+1
\* children, those after it go to the new node with the other children,
\* whose parent references point to the new node, and the overflow check is
\* repeated on the parent.
C29_InternalSplit ==
    \A k \in GrowKeys : \A v \in ValuesOf(k) :
       (~found(k) /\ overflowsParent(findLeafNode(heap, root, k))) =>
          internalSplitAt(rawInsert(k, v), heap[findLeafNode(heap, root, k)].parent,
                          keysWith(findLeafNode(heap, root, k),
                                   newSeparator(findLeafNode(heap, root, k), k, v)),
                          childrenWith(findLeafNode(heap, root, k), Len(heap) + 1),
                          order \div 2, Len(heap) + 2)

C29_Witness ==
    \E k \in GrowKeys :
       /\ ~found(k)
       /\ overflowsParent(findLeafNode(heap, root, k))
       /\ order = MaxOrder

\* the leaf that is left of a merge of leaf n with a sibling.
survivor(n) == IF leftOf(n) # NIL THEN leftOf(n) ELSE n

\* the entries of the two leaves of the merge, the one at idx of n cut out.
mergedEntries(n, idx) ==
    IF leftOf(n) # NIL
    THEN heap[leftOf(n)].values \o RemoveAt(heap[n].values, idx)
    ELSE RemoveAt(heap[n].values, idx) \o heap[rightOf(n)].values

\* the parent P of the merged leaves a (absorbed) and s (survivor) has lost
\* child a and the separator in front of it, and nothing else, unless it
\* underflowed and was rebalanced itself.
lostOneSeparator(R, P, a) ==
    /\ a \notin Range(R.heap[P].children)
    /\ ~underflows(P, Len(heap[P].keys) - 1) =>
          /\ R.heap[P].keys = RemoveAt(heap[P].keys, IndexOf(heap[P].children, a) - 1)
          /\ R.heap[P].children = RemoveAt(heap[P].children, IndexOf(heap[P].children, a))

\* Delete at position idx of leaf n, with outcome R: if n underflows and no
\* sibling can lend, the survivor holds the entries of both leaves in
\* ascending order and points past the absorbed leaf, which is in neither
\* the tree nor the chain; the parent has lost one separator; and every
\* other leaf holds what it held.
leafMergedAt(R, n, idx) ==
    (underflows(n, Len(heap[n].keys) - 1)
       /\ ~surplus(leftOf(n)) /\ ~surplus(rightOf(n))) =>
       /\ holds(R.heap, survivor(n), mergedEntries(n, idx))
       /\ StrictlyIncreasing(R.heap[survivor(n)].keys)
       /\ R.heap[survivor(n)].next = heap[absorbed(n)].next
       /\ gone(R, absorbed(n))
       /\ absorbed(n) \notin Range(LeafChain(R.heap, R.root))
       /\ lostOneSeparator(R, heap[n].parent, absorbed(n))
       /\ \A m \in TreeLeaves \ {n, survivor(n), absorbed(n)} :
             /\ R.heap[m].values = heap[m].values
             /\ R.heap[m].keys = heap[m].keys
             /\ ~gone(R, m)

C31_Root ==
    /\ heap[root].parent = NIL
    /\ ~heap[root].isLeaf =>
          /\ Len(heap[root].keys) >= 1
          /\ Len(heap[root].children) >= 2

\* a Delete is about to take the last separator out of the root.
C31_Witness ==
    /\ ~heap[root].isLeaf
    /\ Len(heap[root].keys) = 1
    /\ \E k \in Keys :
          /\ found(k)
          /\ Len(rawDelete(k).heap[root].keys) = 0
          /\ DeleteOp(k).heap[DeleteOp(k).root].parent = NIL
          /\ DeleteOp(k).count >= 1

\* C32: no internal failure is reachable.  No Insert or Delete panics: the
\* split routines find the node in its parent, and no sibling, separator or
\* entry is read outside its sequence; the position search of the rebalance
\* routines finds every node but the root among its parent's children.
C32_NoFailure ==
    /\ panicked = ""
    /\ \A n \in TreeNodes \ {root} :
          childPos(heap[heap[n].parent], n) < Len(heap[heap[n].parent].children)
    /\ \A k \in Keys :
          IF found(k) THEN rawDelete(k).panic = "" ELSE rawInsert(k, 1).panic = ""

\* a Delete is about to empty the last child of a node, which has no right
\* sibling and whose left sibling has nothing to lend.
C32_Witness ==
    \E k \in Keys :
        /\ found(k)
        /\ underflows(findLeafNode(heap, root, k), Len(heap[findLeafNode(heap, root, k)].keys) - 1)
        /\ rightOf(findLeafNode(heap, root, k)) = NIL
        /\ leftOf(findLeafNode(heap, root, k)) # NIL
        /\ ~surplus(leftOf(findLeafNode(heap, root, k)))
        /\ rawDelete(k).panic = ""

\* leaf n holds a key >= end.
reachesEnd(n, end) == \E i \in 1..Len(heap[n].keys) : comparator(heap[n].keys[i], end) >= 0

\* C33: RangeQuery(start, end) walks the leaf chain forward from the leaf
\* that would contain start and stops at the first entry >= end or at chain
\* end: no leaf after the leaf holding the first key >= end is visited.
C33_StopsAtEnd ==
    \A start, end \in Keys :
        comparator(start, end) < 0 =>
            /\ walked(heap, root, start)[1] = findLeafNode(heap, root, start)
            /\ \A i \in 1..Len(walked(heap, root, start)) :
                  reachesEnd(walked(heap, root, start)[i], end)
                      => i = Len(walked(heap, root, start))

\* every child of every Internal node under n in heap h refers back to it.
parentsKept(h, n) ==
    \A m \in {x \in nodesUnder(h, n) : ~h[x].isLeaf} :
        \A i \in 1..Len(h[m].children) : h[h[m].children[i]].parent = m

\* C34: after every completed operation the root has no parent reference and
\* each child of every Internal node reachable from the root has a parent
\* reference to exactly that node, children moved by an internal split,
\* borrow or merge and the new root after a collapse included.
C34_ParentRefs ==
    /\ heap[root].parent = NIL
    /\ parentsKept(heap, root)

\* node n is under another parent after the call that gave R than before.
adopted(R, n) ==
    /\ n \in nodesUnder(R.heap, R.root)
    /\ R.heap[n].parent # NIL
    /\ R.heap[n].parent # heap[n].parent

\* in a tree whose Internal nodes came out of an Internal split, a Delete is
\* about to move a child to another Internal node, by a borrow or a merge.
C34_Witness ==
    /\ \E m \in TreeInternals : m # root
    /\ \E k \in Keys : found(k) /\ \E n \in TreeNodes : adopted(rawDelete(k), n)

\* R is the tree right after a Delete of key k that did nothing but cut the
\* entry out of its leaf: no panic, the same root, the same nodes, the same
\* height, and every node but the leaf as it was.
onlyCut(R, k) ==
    /\ R.panic = ""
    /\ R.root = root
    /\ R.heap = cutFromLeaf(heap, findLeafNode(heap, root, k),
                            keyIndex(heap[findLeafNode(heap, root, k)], k))
    /\ nodesUnder(R.heap, R.root) = nodesUnder(heap, root)
    /\ Height(R.heap, R.root) = Height(heap, root)

\* C35: with order 3 the floor minKeys is 0 and the underflow test is never
\* true: a Delete only removes the entry from its leaf, never borrows, merges
\* or collapses the root, so neither the set of nodes nor Height() decreases;
\* leaves other than the root can be left without entries.
C35_OrderThree ==
    order = 3 =>
        /\ minKeys = 0
        /\ \A k \in Keys :
              found(k) =>
                  /\ onlyCut(rawDelete(k), k)
                  /\ Cardinality(nodesUnder(DeleteOp(k).heap, DeleteOp(k).root))
                       = Cardinality(TreeNodes)
                  /\ Height(DeleteOp(k).heap, DeleteOp(k).root) = Height(heap, root)

\* a tree of order 3 with an empty leaf under the root, in which a Delete is
\* about to empty another one.
C35_Witness ==
    /\ order = 3
    /\ \E n \in TreeLeaves \ {root} : heap[n].keys = <<>>
    /\ \E k \in Keys :
          /\ found(k)
          /\ findLeafNode(heap, root, k) # root
          /\ Len(heap[findLeafNode(heap, root, k)].keys) = 1
          /\ onlyCut(rawDelete(k), k)

\* the number of nodes that split when one more key arrives in node n: n if
\* it is full, then its parent if that is full too, and so on.
RECURSIVE cascade(_)
cascade(n) ==
    IF Len(heap[n].keys) # order - 1 THEN 0
    ELSE IF heap[n].parent = NIL THEN 1
    ELSE 1 + cascade(heap[n].parent)

\* in heap h node b is the child right after node a of the same parent.
follows(h, a, b) ==
    /\ h[a].parent # NIL /\ h[b].parent = h[a].parent
    /\ h[a].isLeaf = h[b].isLeaf
    /\ \E i \in 1..(Len(h[h[a].parent].children) - 1) :
          h[h[a].parent].children[i] = a /\ h[h[a].parent].children[i + 1] = b

\* in heap h node b is the right neighbour of node a on its level: the next
\* child of the same parent, or the first child of the parent's right
\* neighbour when a is a last child.
RECURSIVE neighbours(_, _, _)
neighbours(h, a, b) ==
    \/ follows(h, a, b)
    \/ /\ h[a].parent # NIL /\ h[b].parent # NIL /\ h[a].parent # h[b].parent
       /\ h[a].isLeaf = h[b].isLeaf
       /\ Last(h[h[a].parent].children) = a
       /\ h[h[b].parent].children[1] = b
       /\ neighbours(h, h[a].parent, h[b].parent)

\* the nodes from n up to the root.
RECURSIVE pathUp(_)
pathUp(n) == IF heap[n].parent = NIL THEN {n} ELSE {n} \cup pathUp(heap[n].parent)

\* R is the tree right after Insert of a new key into leaf n, N the nodes
\* before and N2 the nodes after: no node is lost, each split adds the
\* right neighbour of the node split, and a split of the root adds the
\* new root over the two.
grownBySplits(R, n, N, N2) ==
    /\ N \subseteq N2
    /\ Cardinality(N2 \ N) = cascade(n) + (IF fullToRoot(n) THEN 1 ELSE 0)
    /\ (R.root # root) = fullToRoot(n)
    /\ R.root # root =>
          /\ R.root \notin N
          /\ Len(R.heap[R.root].children) = 2
          /\ R.heap[R.root].children[1] = root
    /\ \A new \in N2 \ (N \cup {R.root}) :
          \E old \in pathUp(n) :
              Len(heap[old].keys) = order - 1 /\ neighbours(R.heap, old, new)

\* node a, lost in the Delete of key k that gave R, was absorbed by a
\* sibling next to it, which holds what a held.
absorbedBy(R, a, k, N2) ==
    \E s \in N2 :
        /\ follows(heap, a, s) \/ follows(heap, s, a)
        /\ heap[a].isLeaf => Range(heap[a].keys) \ {k} \subseteq Range(R.heap[s].keys)
        /\ Range(heap[a].children) \cap N2 \subseteq Range(R.heap[s].children)

\* R is the tree right after Delete of a key k of leaf n, N the nodes before
\* and N2 the nodes after: no node is new, nodes are lost only when the leaf
\* underflowed, and each is an absorbed sibling or the collapsed root.
shrunkByMerges(R, n, k, N, N2) ==
    /\ N2 \subseteq N
    /\ N2 # N => underflows(n, Len(heap[n].keys) - 1)
    /\ (R.root # root) = (root \notin N2)
    /\ R.root # root => R.root \in Range(heap[root].children)
    /\ \A a \in N \ (N2 \cup {root}) : absorbedBy(R, a, k, N2)

\* the nodes of the tree, before and after each call.
lifecycleKept ==
    \A k \in Keys :
        IF found(k)
        THEN /\ nodesUnder(InsertOp(k, 1).heap, InsertOp(k, 1).root) = TreeNodes
             /\ shrunkByMerges(rawDelete(k), findLeafNode(heap, root, k), k, TreeNodes,
                               nodesUnder(rawDelete(k).heap, rawDelete(k).root))
        ELSE /\ nodesUnder(DeleteOp(k).heap, DeleteOp(k).root) = TreeNodes
             /\ grownBySplits(rawInsert(k, 1), findLeafNode(heap, root, k), TreeNodes,
                              nodesUnder(rawInsert(k, 1).heap, rawInsert(k, 1).root))

\* C36: Insert never removes a node and Delete never adds one; the nodes
\* reachable from the root grow only by a split (one new sibling, and one new
\* root when the root itself splits) and shrink only by a merge (the
\* absorbed sibling) or a root collapse (the discarded root); the order and
\* the comparator never change after construction.
C36_Lifecycle == [](lifecycleKept) /\ [][order' = order /\ arg' = arg]_vars

\* an Insert is about to split a leaf and its parent, and a Delete to merge
\* a leaf away.
C36_Witness ==
    /\ \E k \in Keys : ~found(k) /\ cascade(findLeafNode(heap, root, k)) >= 2
    /\ \E k \in Keys :
          found(k) /\ nodesUnder(rawDelete(k).heap, rawDelete(k).root) # TreeNodes

\* in heap h every entry of every leaf under n sits at the index of its key.
paired(h, n) ==
    \A m \in {x \in nodesUnder(h, n) : h[x].isLeaf} :
        /\ Len(h[m].keys) = Len(h[m].values)
        /\ \A i \in 1..Len(h[m].keys) : h[m].values[i].Key = h[m].keys[i]

\* the keys of the leaves of a chain, in chain order.
chainKeys(h, chain) == Flatten([i \in 1..Len(chain) |-> h[chain[i]].keys])

\* C37: in every leaf, after every completed operation, keys and values
\* have the same length and values[i].Key = keys[i] at every index, so the
\* entry that Search reads for a key and each entry of ScanAll carries the
\* key it is stored under.
C37_Paired ==
    /\ paired(heap, root)
    /\ \A k \in Keys :
          found(k) =>
              heap[findLeafNode(heap, root, k)]
                  .values[keyIndex(heap[findLeafNode(heap, root, k)], k) + 1].Key = k
    /\ Len(ScanAll(heap, root)) = Len(chainKeys(heap, LeafChain(heap, root)))
    /\ \A i \in 1..Len(ScanAll(heap, root)) :
          ScanAll(heap, root)[i].Key = chainKeys(heap, LeafChain(heap, root))[i]

\* leaf m holds other entries after the call that gave R than before.
entriesMoved(R, m) == m \in nodesUnder(R.heap, R.root) /\ R.heap[m].values # heap[m].values

\* a Delete is about to move entries between leaves (borrow or merge), and
\* an Insert to split a leaf, each leaving the entries paired.
C37_Witness ==
    /\ \E k \in Keys :
          /\ found(k)
          /\ \E m \in TreeLeaves \ {findLeafNode(heap, root, k)} : entriesMoved(rawDelete(k), m)
          /\ paired(rawDelete(k).heap, rawDelete(k).root)
    /\ \E k \in Keys :
          /\ ~found(k)
          /\ cascade(findLeafNode(heap, root, k)) >= 1
          /\ paired(rawInsert(k, 1).heap, rawInsert(k, 1).root)

====
